---- MODULE Spec2Model ----
(***************************************************************************)
(* Model of src/app.py: the Flask handlers fetch_emails (GET               *)
(* /api/fetch-emails) and analyze_email (POST /api/analyze-email) together *)
(* with initialize_services.                                               *)
(*                                                                         *)
(* Conventions.                                                            *)
(*  - The Turkish string literals of the source are written in ASCII       *)
(*    (dotless/dotted i, s-cedilla, u-umlaut dropped); distinct literals   *)
(*    of the source stay distinct here.                                    *)
(*  - A service handle is TRUE when the global is set and FALSE when it    *)
(*    is None.                                                             *)
(*  - JSON null/true/false of is_normal are the strings "null", "true",    *)
(*    "false".                                                             *)
(*  - A confidence score is an integer number of hundred-thousandths, so  *)
(*    0.8 is 80000; a reported percentage is an integer number of 1/100    *)
(*    percent, so 81.23 is 8123.                                           *)
(*  - A dict key that is absent is the value Missing (strings) or          *)
(*    MissingNum (numbers); dict.get(key, default) is Get.                 *)
(*  - calls is the log of the calls made to the collaborators              *)
(*    (mail_fetcher, model_manager, mail_analyzer, translation_service)    *)
(*    during the current request, in order, with the outcome of each.      *)
(***************************************************************************)
EXTENDS Integers, Sequences, FiniteSets, TLC

VARIABLES
    mail_fetcher, mail_analyzer, model_manager, translation_service,
    pc, handler, page, per_page, selected_model,
    email_ids, total_emails, total_pages, start_idx, end_idx,
    page_email_ids, emails, formatted_emails, analysis_result,
    response, calls

vars == << mail_fetcher, mail_analyzer, model_manager, translation_service,
           pc, handler, page, per_page, selected_model,
           email_ids, total_emails, total_pages, start_idx, end_idx,
           page_email_ids, emails, formatted_emails, analysis_result,
           response, calls >>

services == << mail_fetcher, mail_analyzer, model_manager, translation_service >>

locals == << email_ids, total_emails, total_pages, start_idx, end_idx,
             page_email_ids, emails, formatted_emails, analysis_result >>

-----------------------------------------------------------------------------
(* Bounds of the model.                                                    *)

MaxEmails == 3
MaxPage == 3
MaxPerPage == 2

(* Program constants.                                                      *)

DefaultPage == 1
DefaultPerPage == 10
PreviewLen == 150
HighThreshold == 80000
MediumThreshold == 50000

-----------------------------------------------------------------------------
(* Values.                                                                 *)

Missing == "<missing>"
MissingNum == 0 - 1

Min(a, b) == IF a < b THEN a ELSE b

Get(v, missing, default) == IF v = missing THEN default ELSE v

Models == {"transformer", "svm"}

(* search_emails returns the ids of the mailbox in ascending order.        *)
IdSeq(n) == [k \in 1..n |-> k]

SubjectOf(mid) == "subject " \o ToString(mid)

(* The messages fetch_multiple_emails may return for one id.  A content is *)
(* its length: 200 is a text longer than the preview, 0 the empty string;  *)
(* a bare message has neither a subject nor a content key.                 *)
Shapes == {"text", "empty", "bare"}

RawMessage(mid, shape) ==
    CASE shape = "text" -> [subject |-> SubjectOf(mid), content |-> 200]
      [] shape = "empty" -> [subject |-> SubjectOf(mid), content |-> 0]
      [] shape = "bare" -> [subject |-> Missing, content |-> MissingNum]

(* Prediction tokens the model layer may return: every key of the two      *)
(* tables, labels of the vocabulary, and a token of neither.               *)
Tokens ==
    { "LABEL_0", "LABEL_1", "LABEL_2", "LABEL_3", "LABEL_4",
      "0", "1", "2", "3", "4", "normal", "anormal",
      "Normal", "Anormal", "Pazar Ihlali", "SPAM" }

(* Confidence scores the model layer may return.  No score lies halfway    *)
(* between two reported percentages.                                       *)
Confidences ==
    { 0, 1, 49999, 50000, 50001, 60000, 79999, 80000, 80001, 81000, 81234, 100000 }

None == [kind |-> "None", prediction |-> Missing, confidence |-> MissingNum]

Dict(prediction, confidence) ==
    [kind |-> "dict", prediction |-> prediction, confidence |-> confidence]

(* What mail_analyzer.analyze_single_email may return.                     *)
SingleResults ==
    {None} \cup { Dict(p, c) : p \in Tokens \cup {Missing},
                                c \in Confidences \cup {MissingNum} }

(* The tokens of each selectable model: the transformer names its classes  *)
(* LABEL_k, the svm pipeline by index or by 'normal'/'anormal'; each may    *)
(* also return a token of neither table.                                   *)
ModelTokens(model) ==
    IF model = "transformer"
    THEN {"LABEL_0", "LABEL_1", "LABEL_2", "LABEL_3", "LABEL_4", "SPAM"}
    ELSE {"0", "1", "2", "3", "4", "normal", "anormal", "Normal"}

(* What model_manager.analyze_email may return: None, the empty dict, a    *)
(* dict without prediction, and every token of the model with one score.   *)
BatchResults(model) ==
    {None, Dict(Missing, MissingNum)}
        \cup { Dict(p, 81234) : p \in ModelTokens(model) \cup {Missing} }

(* Python truth value of an analysis result: None and {} are false.        *)
Truthy(r) ==
    r.kind = "dict" /\ (r.prediction # Missing \/ r.confidence # MissingNum)

(* How a returned analysis result is entered in the calls log.             *)
ResultKind(r) ==
    IF r.kind = "None" THEN "None" ELSE IF Truthy(r) THEN "dict" ELSE "empty"

-----------------------------------------------------------------------------
(* Pure parts of the handlers.                                             *)

fetch_label_mapping_lowercase ==
    ("LABEL_0" :> "Normal") @@ ("0" :> "normal") @@ ("normal" :> "Normal") @@
    ("LABEL_1" :> "Pazar Ihlali") @@ ("1" :> "Pazar Ihlali") @@
    ("anormal" :> "Anormal") @@
    ("LABEL_2" :> "Ihale Ihlali") @@ ("2" :> "Ihale Ihlali") @@
    ("LABEL_3" :> "Fiyat Ihlali") @@ ("3" :> "Fiyat Ihlali") @@
    ("LABEL_4" :> "Bilgi Ihlali") @@ ("4" :> "Bilgi Ihlali")

fetch_label_mapping ==
    ("LABEL_0" :> "Normal") @@ ("0" :> "Normal") @@ ("normal" :> "Normal") @@
    ("LABEL_1" :> "Pazar Ihlali") @@ ("1" :> "Pazar Ihlali") @@
    ("anormal" :> "Anormal") @@
    ("LABEL_2" :> "Ihale Ihlali") @@ ("2" :> "Ihale Ihlali") @@
    ("LABEL_3" :> "Fiyat Ihlali") @@ ("3" :> "Fiyat Ihlali") @@
    ("LABEL_4" :> "Bilgi Ihlali") @@ ("4" :> "Bilgi Ihlali")

analyze_label_mapping ==
    ("LABEL_0" :> "Normal") @@
    ("LABEL_1" :> "Pazar Ihlali") @@
    ("LABEL_2" :> "Ihale Ihlali") @@
    ("LABEL_3" :> "Fiyat Ihlali") @@
    ("LABEL_4" :> "Bilgi Ihlali") @@
    ("0" :> "Normal") @@
    ("1" :> "Pazar Ihlali") @@
    ("2" :> "Ihale Ihlali") @@
    ("3" :> "Fiyat Ihlali") @@
    ("4" :> "Bilgi Ihlali")

(* label_mapping.get(prediction, prediction)                               *)
MapGet(mapping, prediction) ==
    IF prediction \in DOMAIN mapping THEN mapping[prediction] ELSE prediction

IsNormal_inverted(anomaly_type) == IF anomaly_type # "Normal" THEN "true" ELSE "false"

IsNormal(anomaly_type) == IF anomaly_type = "Normal" THEN "true" ELSE "false"

(* round(confidence * 100, 2): a score to 1/100 percent, to nearest.       *)
RoundPercent(confidence) == (confidence + 5) \div 10

ConfidenceLevel_inclusive(confidence) ==
    IF confidence >= HighThreshold THEN "Yuksek"
    ELSE IF confidence >= MediumThreshold THEN "Orta"
    ELSE "Dusuk"

ConfidenceLevel(confidence) ==
    IF confidence > HighThreshold THEN "Yuksek"
    ELSE IF confidence > MediumThreshold THEN "Orta"
    ELSE "Dusuk"

(* Python s[a:b] on a sequence, for any integers a and b.                  *)
SliceIndex(n, k) == IF k < 0 THEN (IF k + n < 0 THEN 0 ELSE k + n) ELSE Min(k, n)

PySlice(s, a, b) ==
    LET lo == SliceIndex(Len(s), a)
        hi == SliceIndex(Len(s), b)
    IN  IF hi <= lo THEN << >> ELSE SubSeq(s, lo + 1, hi)

(* (total_emails + per_page - 1) // per_page, for per_page > 0            *)
TotalPages_floor(total, page_size) == total \div page_size

TotalPages(total, page_size) == (total + page_size - 1) \div page_size

(* s[::-1]                                                                 *)
Reversed(s) == [k \in 1..Len(s) |-> s[Len(s) + 1 - k]]

(* content[:150] + '...' if len(content) > 150 else content                *)
Preview(content) ==
    IF content > PreviewLen THEN PreviewLen + Len("...") ELSE content

-----------------------------------------------------------------------------
(* Responses.                                                              *)

NoResponse == [kind |-> "none", code |-> 0]

ErrorResponse(code, error) == [kind |-> "error", code |-> code, error |-> error]

(* The analysis blocks of fetch_emails.                                    *)
ResultBlock(prediction, confidence) ==
    LET anomaly_type == MapGet(fetch_label_mapping, prediction)
    IN  [ status |-> anomaly_type,
          is_normal |-> IsNormal(anomaly_type),
          confidence |-> RoundPercent(confidence),
          prediction |-> prediction ]

NoResultBlock ==
    [ status |-> "Analiz Edilemedi", is_normal |-> "null",
      confidence |-> 0, prediction |-> "UNKNOWN" ]

ErrorBlock_unknown ==
    [ status |-> "Analiz Edilemedi", is_normal |-> "null",
      confidence |-> 0, prediction |-> "UNKNOWN" ]

ErrorBlock ==
    [ status |-> "Analiz Hatasi", is_normal |-> "null",
      confidence |-> 0, prediction |-> "ERROR" ]

NoContentBlock_unknown ==
    [ status |-> "Analiz Edilemedi", is_normal |-> "null",
      confidence |-> 0, prediction |-> "UNKNOWN" ]

NoContentBlock ==
    [ status |-> "Analiz Edilemedi", is_normal |-> "null",
      confidence |-> 0, prediction |-> "NO_ANALYZER" ]

(* The envelope fetch_emails returns when the search finds no ids.         *)
EmptyEnvelope_one_page(current_page, page_size) ==
    [ kind |-> "empty", code |-> 200,
      emails |-> << >>,
      total_emails |-> 0,
      current_page |-> current_page,
      total_pages |-> 1,
      per_page |-> page_size ]

EmptyEnvelope(current_page, page_size) ==
    [ kind |-> "empty", code |-> 200,
      emails |-> << >>,
      total_emails |-> 0,
      current_page |-> current_page,
      total_pages |-> 0,
      per_page |-> page_size ]

(* The envelope fetch_emails returns after the loop.                       *)
PageEnvelope_zero_based(formatted, total, current_page, pages, page_size, start) ==
    [ kind |-> "page", code |-> 200,
      emails |-> formatted,
      total_emails |-> total,
      current_page |-> current_page,
      total_pages |-> pages,
      per_page |-> page_size,
      start_index |-> start,
      end_index |-> Min(start + page_size, total) ]

PageEnvelope(formatted, total, current_page, pages, page_size, start) ==
    [ kind |-> "page", code |-> 200,
      emails |-> formatted,
      total_emails |-> total,
      current_page |-> current_page,
      total_pages |-> pages,
      per_page |-> page_size,
      start_index |-> start + 1,
      end_index |-> Min(start + page_size, total) ]

(* The calls log.                                                          *)
Call(op, out, arg) == [op |-> op, out |-> out, arg |-> arg]

Logged(op, out, arg) == calls' = Append(calls, Call(op, out, arg))

Count(op) == Cardinality({ k \in 1..Len(calls) : calls[k].op = op })

Made(op, out) == \E k \in 1..Len(calls) : calls[k].op = op /\ calls[k].out = out

-----------------------------------------------------------------------------
(* Initial state: the module globals are None, no request is in progress.  *)

NoLocals ==
    /\ email_ids = << >>
    /\ total_emails = 0
    /\ total_pages = 0
    /\ start_idx = 0
    /\ end_idx = 0
    /\ page_email_ids = << >>
    /\ emails = << >>
    /\ formatted_emails = << >>
    /\ analysis_result = None

Init ==
    /\ mail_fetcher = FALSE
    /\ mail_analyzer = FALSE
    /\ model_manager = FALSE
    /\ translation_service = FALSE
    /\ pc = "boot"
    /\ handler = "none"
    /\ page = 0
    /\ per_page = 0
    /\ selected_model = "transformer"
    /\ NoLocals
    /\ response = NoResponse
    /\ calls = << >>

(* initialize_services: the globals are assigned in the order fetcher,     *)
(* analyzer, model manager, translation service; an exception in one of    *)
(* the constructors or loaders leaves the later ones None.  n is the       *)
(* number of globals that got assigned.  The handlers are registered on    *)
(* the module, so they can be served whatever n is.                        *)
initialize_services(n) ==
    /\ pc = "boot"
    /\ mail_fetcher' = (n >= 1)
    /\ mail_analyzer' = (n >= 2)
    /\ model_manager' = (n >= 3)
    /\ translation_service' = (n >= 4)
    /\ pc' = "idle"
    /\ UNCHANGED << handler, page, per_page, selected_model, locals, response, calls >>

(* except Exception of a handler: log, respond 500.                        *)
Raise(error) ==
    /\ response' = ErrorResponse(500, error)
    /\ pc' = "done"

-----------------------------------------------------------------------------
(* fetch_emails                                                            *)

(* The handler up to the parsing of the query parameters.  A parameter     *)
(* that is Missing takes its default; bad is a parameter int() rejects.    *)
(* Requests of the model always carry per_page: the default page size is   *)
(* larger than the mailboxes explored.                                     *)
fetch_emails_begin(page_arg, per_page_arg, model_arg, bad) ==
    /\ pc = "idle"
    /\ handler' = "fetch_emails"
    /\ IF ~mail_fetcher
       THEN /\ response' = ErrorResponse(500, "Mail fetcher not initialized")
            /\ pc' = "done"
            /\ UNCHANGED << page, per_page, selected_model >>
       ELSE IF bad
       THEN /\ Raise("Failed to fetch emails")
            /\ UNCHANGED << page, per_page, selected_model >>
       ELSE /\ page' = Get(page_arg, MissingNum, DefaultPage)
            /\ per_page' = Get(per_page_arg, MissingNum, DefaultPerPage)
            /\ selected_model' = Get(model_arg, Missing, "transformer")
            /\ pc' = "connect"
            /\ UNCHANGED response
    /\ UNCHANGED << services, locals, calls >>

(* if not mail_fetcher.connect(): return 500                               *)
connect_no_return(ok) ==
    /\ pc = "connect"
    /\ Logged("connect", IF ok THEN "ok" ELSE "false", 0)
    /\ pc' = "select_mailbox"
    /\ UNCHANGED << services, handler, page, per_page, selected_model, locals, response >>

connect(ok) ==
    /\ pc = "connect"
    /\ IF ok
       THEN /\ Logged("connect", "ok", 0)
            /\ pc' = "select_mailbox"
            /\ UNCHANGED response
       ELSE /\ Logged("connect", "false", 0)
            /\ response' = ErrorResponse(500, "Failed to connect to email server")
            /\ pc' = "done"
    /\ UNCHANGED << services, handler, page, per_page, selected_model, locals >>

(* mail_fetcher.select_mailbox('INBOX')                                    *)
select_mailbox(raises) ==
    /\ pc = "select_mailbox"
    /\ IF raises
       THEN /\ Logged("select_mailbox", "raise", 0)
            /\ Raise("Failed to fetch emails")
       ELSE /\ Logged("select_mailbox", "ok", 0)
            /\ pc' = "search_emails"
            /\ UNCHANGED response
    /\ UNCHANGED << services, handler, page, per_page, selected_model, locals >>

(* email_ids = mail_fetcher.search_emails(...); the branch of no ids       *)
(* disconnects and returns the empty envelope.                             *)
search_emails(n, raises) ==
    /\ pc = "search_emails"
    /\ IF raises
       THEN /\ Logged("search_emails", "raise", 0)
            /\ Raise("Failed to fetch emails")
            /\ UNCHANGED email_ids
       ELSE /\ email_ids' = IdSeq(n)
            /\ IF n = 0
               THEN /\ calls' = calls \o << Call("search_emails", "ok", 0),
                                            Call("disconnect", "ok", 0) >>
                    /\ response' = EmptyEnvelope(page, per_page)
                    /\ pc' = "done"
               ELSE /\ Logged("search_emails", "ok", 0)
                    /\ pc' = "paginate"
                    /\ UNCHANGED response
    /\ UNCHANGED << services, handler, page, per_page, selected_model,
                    total_emails, total_pages, start_idx, end_idx,
                    page_email_ids, emails, formatted_emails, analysis_result >>

(* The pagination arithmetic and the slice of the reversed ids.  The       *)
(* floor division raises ZeroDivisionError on per_page = 0.                *)
paginate ==
    /\ pc = "paginate"
    /\ IF per_page = 0
       THEN /\ total_emails' = Len(email_ids)
            /\ Raise("Failed to fetch emails")
            /\ UNCHANGED << total_pages, start_idx, end_idx, page_email_ids >>
       ELSE /\ total_emails' = Len(email_ids)
            /\ total_pages' = TotalPages(Len(email_ids), per_page)
            /\ start_idx' = (page - 1) * per_page
            /\ end_idx' = (page - 1) * per_page + per_page
            /\ page_email_ids' =
                 PySlice(Reversed(email_ids),
                         (page - 1) * per_page, (page - 1) * per_page + per_page)
            /\ pc' = "fetch"
            /\ UNCHANGED response
    /\ UNCHANGED << services, handler, page, per_page, selected_model,
                    email_ids, emails, formatted_emails, analysis_result, calls >>

(* The lists fetch_multiple_emails may return for ids: one message per id, *)
(* in the order of ids, at most max_emails of them.                        *)
MessageLists(ids, max_emails) ==
    LET wanted == PySlice(ids, 0, max_emails)
    IN  { [k \in 1..Len(wanted) |-> RawMessage(wanted[k], shape[k])] :
            shape \in [1..Len(wanted) -> Shapes] }

(* emails = mail_fetcher.fetch_multiple_emails(page_email_ids,             *)
(*                                             max_emails=per_page)        *)
fetch_multiple_emails(msgs, raises) ==
    /\ pc = "fetch"
    /\ IF raises
       THEN /\ Logged("fetch_multiple_emails", "raise", Len(page_email_ids))
            /\ Raise("Failed to fetch emails")
            /\ UNCHANGED emails
       ELSE /\ msgs \in MessageLists(page_email_ids, per_page)
            /\ Logged("fetch_multiple_emails", "ok", Len(page_email_ids))
            /\ emails' = msgs
            /\ pc' = "disconnect"
            /\ UNCHANGED response
    /\ UNCHANGED << services, handler, page, per_page, selected_model,
                    email_ids, total_emails, total_pages, start_idx, end_idx,
                    page_email_ids, formatted_emails, analysis_result >>

(* mail_fetcher.disconnect() after the fetch                               *)
disconnect ==
    /\ pc = "disconnect"
    /\ Logged("disconnect", "ok", 0)
    /\ pc' = "format"
    /\ UNCHANGED << services, handler, page, per_page, selected_model,
                    locals, response >>

(* translation_service.translate_email_content(email_data) followed by     *)
(* email_data.update(...): the overlay adds the translated fields.         *)
TranslationOverlay(email_data) == [email_data EXCEPT !.translated = TRUE]

(* One iteration of the loop over emails: i is the 0-based index of the    *)
(* message, outcome what model_manager.analyze_email does when called      *)
(* ("raise", or "return" of result), translation what the translation      *)
(* service does when called.  sender and date are copied as subject is.    *)
format_email(outcome, result, translation) ==
    /\ pc = "format"
    /\ Len(formatted_emails) < Len(emails)
    /\ LET i == Len(formatted_emails)
           email == emails[i + 1]
           content == Get(email.content, MissingNum, 0)
           has_content == email.content # MissingNum /\ email.content > 0
           called == has_content /\ model_manager
           returned == IF called /\ outcome = "return" THEN result ELSE None
           analysis ==
               IF ~has_content THEN NoContentBlock
               ELSE IF called /\ outcome = "raise" THEN ErrorBlock
               ELSE IF Truthy(returned)
                    THEN ResultBlock(Get(returned.prediction, Missing, "UNKNOWN"),
                                     Get(returned.confidence, MissingNum, 0))
                    ELSE NoResultBlock
           email_data ==
               [ id |-> start_idx + i,
                 subject |-> Get(email.subject, Missing, "No Subject"),
                 content |-> content,
                 preview |-> Preview(content),
                 analysis |-> analysis,
                 translated |-> FALSE ]
           model_calls ==
               IF called
               THEN << Call("analyze_email",
                            IF outcome = "raise" THEN "raise" ELSE ResultKind(returned),
                            i) >>
               ELSE << >>
           translation_calls ==
               IF translation_service
               THEN << Call("translate_email_content", translation, i) >>
               ELSE << >>
       IN  /\ analysis_result' = IF has_content THEN returned ELSE analysis_result
           /\ formatted_emails' =
                Append(formatted_emails,
                       IF translation_service /\ translation = "ok"
                       THEN TranslationOverlay(email_data)
                       ELSE email_data)
           /\ calls' = calls \o model_calls \o translation_calls
    /\ UNCHANGED << services, pc, handler, page, per_page, selected_model,
                    email_ids, total_emails, total_pages, start_idx, end_idx,
                    page_email_ids, emails, response >>

(* return jsonify({...}) after the loop                                    *)
respond ==
    /\ pc = "format"
    /\ Len(formatted_emails) = Len(emails)
    /\ response' = PageEnvelope(formatted_emails, total_emails, page,
                                total_pages, per_page, start_idx)
    /\ pc' = "done"
    /\ UNCHANGED << services, handler, page, per_page, selected_model, locals, calls >>

-----------------------------------------------------------------------------
(* analyze_email: the whole handler.  data is the JSON body ("none",       *)
(* "no_content" or "content"); outcome and result are what                 *)
(* mail_analyzer.analyze_single_email does.                                *)
analyze_email(data, outcome, result) ==
    /\ pc = "idle"
    /\ handler' = "analyze_email"
    /\ pc' = "done"
    /\ IF ~mail_analyzer
       THEN /\ response' = ErrorResponse(500, "Mail analyzer not initialized")
            /\ UNCHANGED << analysis_result, calls >>
       ELSE IF data # "content"
       THEN /\ response' = ErrorResponse(400, "Email content is required")
            /\ UNCHANGED << analysis_result, calls >>
       ELSE IF outcome = "raise"
       THEN /\ response' = ErrorResponse(500, "Failed to analyze email")
            /\ Logged("analyze_single_email", "raise", 0)
            /\ UNCHANGED analysis_result
       ELSE /\ analysis_result' = result
            /\ Logged("analyze_single_email", ResultKind(result), 0)
            /\ IF ~Truthy(result)
               THEN response' = ErrorResponse(500, "Failed to analyze email")
               ELSE LET prediction == Get(result.prediction, Missing, "UNKNOWN")
                        confidence == Get(result.confidence, MissingNum, 0)
                        anomaly_type == MapGet(analyze_label_mapping, prediction)
                    IN  response' =
                          [ kind |-> "analysis", code |-> 200,
                            status |-> anomaly_type,
                            is_normal |-> IsNormal(anomaly_type),
                            confidence |-> RoundPercent(confidence),
                            confidence_level |-> ConfidenceLevel(confidence),
                            prediction |-> prediction ]
    /\ UNCHANGED << services, page, per_page, selected_model,
                    email_ids, total_emails, total_pages, start_idx, end_idx,
                    page_email_ids, emails, formatted_emails >>

(* The response is sent; the locals of the request are gone.               *)
return ==
    /\ pc = "done"
    /\ pc' = "idle"
    /\ handler' = "none"
    /\ page' = 0
    /\ per_page' = 0
    /\ selected_model' = "transformer"
    /\ email_ids' = << >>
    /\ total_emails' = 0
    /\ total_pages' = 0
    /\ start_idx' = 0
    /\ end_idx' = 0
    /\ page_email_ids' = << >>
    /\ emails' = << >>
    /\ formatted_emails' = << >>
    /\ analysis_result' = None
    /\ response' = NoResponse
    /\ calls' = << >>
    /\ UNCHANGED services

-----------------------------------------------------------------------------
Outcomes == {"raise", "return"}

Next ==
    \/ \E n \in 0..4 : initialize_services(n)
    \/ \E p \in (0..MaxPage) \cup {MissingNum},
          pp \in 0..MaxPerPage,
          m \in Models \cup {Missing},
          bad \in BOOLEAN : fetch_emails_begin(p, pp, m, bad)
    \/ \E ok \in BOOLEAN : connect(ok)
    \/ \E raises \in BOOLEAN : select_mailbox(raises)
    \/ \E n \in 0..MaxEmails, raises \in BOOLEAN : search_emails(n, raises)
    \/ paginate
    \/ /\ pc = "fetch"
       /\ \E msgs \in MessageLists(page_email_ids, per_page) :
             fetch_multiple_emails(msgs, FALSE)
    \/ fetch_multiple_emails(<< >>, TRUE)
    \/ disconnect
    \/ \E outcome \in Outcomes, result \in BatchResults(selected_model),
          translation \in {"ok", "raise"} : format_email(outcome, result, translation)
    \/ respond
    \/ \E data \in {"none", "no_content", "content"}, outcome \in Outcomes,
          result \in SingleResults : analyze_email(data, outcome, result)
    \/ return

Spec == Init /\ [][Next]_vars

-----------------------------------------------------------------------------
(* Properties.                                                             *)

FetchDone == pc = "done" /\ handler = "fetch_emails"

Blocks == { formatted_emails[j].analysis : j \in 1..Len(formatted_emails) }

(* C1: whenever fetch_emails returns after connect() succeeded,            *)
(* disconnect() has been invoked exactly once, whichever way the handler   *)
(* returned (normal, no ids, or an exception answered with 500).           *)
C1_DisconnectExactlyOnce ==
    (FetchDone /\ Made("connect", "ok")) => Count("disconnect") = 1

(* C2: for T >= 1 ids, page >= 1 and per_page >= 1 the pagination does not *)
(* raise, total_pages is the ceiling of T / per_page, and the ids handed   *)
(* to fetch_multiple_emails are the newest-first slice                     *)
(* [(page-1)*per_page, (page-1)*per_page + per_page), of length            *)
(* min(per_page, max(0, T - (page-1)*per_page)).                           *)
CeilDiv(t, d) == CHOOSE n \in 0..t : n * d >= t /\ (n - 1) * d < t

C2_Pagination ==
    LET T == Len(email_ids)
        first == (page - 1) * per_page
        rest == IF T - first > 0 THEN T - first ELSE 0
        size == IF per_page < rest THEN per_page ELSE rest
    IN  ( /\ handler = "fetch_emails"
          /\ Made("search_emails", "ok")
          /\ T >= 1 /\ page >= 1 /\ per_page >= 1
          /\ pc # "paginate" )
        => /\ pc = "fetch" \/ Count("fetch_multiple_emails") = 1
           /\ total_pages = CeilDiv(T, per_page)
           /\ Len(page_email_ids) = size
           /\ \A k \in 1..size : page_email_ids[k] = email_ids[T + 1 - (first + k)]
           /\ \A k \in 1..Len(calls) :
                calls[k].op = "fetch_multiple_emails" => calls[k].arg = size

C2_Witness ==
    /\ FetchDone /\ response.kind = "page"
    /\ Len(email_ids) = 3 /\ page = 2 /\ per_page = 2
    /\ page_email_ids = << 1 >>
    /\ total_pages = 2

(* C5: when the search returns no ids, fetch_emails answers 200 with an    *)
(* empty list, total_emails = 0 and total_pages = 0, for every page and    *)
(* per_page, and neither the connector fetch nor the model layer is        *)
(* invoked.                                                                *)
C5_EmptyResult ==
    (handler = "fetch_emails" /\ Made("search_emails", "ok") /\ email_ids = << >>)
    => /\ pc = "done"
       /\ response.kind = "empty"
       /\ response.code = 200
       /\ response.emails = << >>
       /\ response.total_emails = 0
       /\ response.total_pages = 0
       /\ Count("fetch_multiple_emails") = 0
       /\ Count("analyze_email") = 0

C5_Witness ==
    /\ FetchDone /\ Made("search_emails", "ok") /\ email_ids = << >>
    /\ per_page = 0 /\ page = 0
    /\ response.code = 200

(* C6: when connect() returns false, fetch_emails answers 500 with an      *)
(* error body and calls nothing else: connect is the only call of the      *)
(* request.                                                                *)
C6_ConnectFailure ==
    Made("connect", "false")
    => /\ pc = "done"
       /\ response.kind = "error"
       /\ response.code = 500
       /\ Len(calls) = 1

C6_Witness ==
    /\ FetchDone /\ Made("connect", "false")
    /\ model_manager /\ translation_service
    /\ response.code = 500

(* The outcome of the model call made for the message of 0-based index i,  *)
(* "skipped" when no call was made for it.                                 *)
ModelOutcome(i) ==
    IF \E k \in 1..Len(calls) : calls[k].op = "analyze_email" /\ calls[k].arg = i
    THEN LET k == CHOOSE k \in 1..Len(calls) :
                    calls[k].op = "analyze_email" /\ calls[k].arg = i
         IN  calls[k].out
    ELSE "skipped"

HasContent(email) == email.content # MissingNum /\ email.content > 0

(* C3: once the page is fetched the request succeeds with 200 and returns  *)
(* all N fetched messages in the order fetched; a message whose analysis   *)
(* raised carries the 'Analiz Hatasi' block (is_normal null, confidence 0, *)
(* prediction ERROR), and every message with content is still handed to    *)
(* the model layer, whatever subset of the analyses raised.                *)
C3_AnalysisErrorIsolated ==
    (FetchDone /\ Made("fetch_multiple_emails", "ok"))
    => /\ response.kind = "page"
       /\ response.code = 200
       /\ Len(response.emails) = Len(emails)
       /\ \A j \in 1..Len(emails) :
            /\ response.emails[j].subject = Get(emails[j].subject, Missing, "No Subject")
            /\ response.emails[j].content = Get(emails[j].content, MissingNum, 0)
            /\ ModelOutcome(j - 1) = "raise" =>
                 response.emails[j].analysis =
                   [ status |-> "Analiz Hatasi", is_normal |-> "null",
                     confidence |-> 0, prediction |-> "ERROR" ]
            /\ (HasContent(emails[j]) /\ model_manager) => ModelOutcome(j - 1) # "skipped"

C3_Witness ==
    /\ FetchDone /\ response.kind = "page"
    /\ Len(response.emails) = 2
    /\ ModelOutcome(0) = "raise"
    /\ ModelOutcome(1) = "dict"
    /\ response.emails[1].analysis.prediction = "ERROR"
    /\ response.emails[2].analysis.status = "Normal"

(* C4 as claimed: the id of a message is the response's start_index plus   *)
(* the offset of the message within the page.                              *)
C4_IdFromStartIndex ==
    (FetchDone /\ response.kind = "page")
    => \A j \in 1..Len(response.emails) :
         response.emails[j].id = response.start_index + (j - 1)

(* C4, amended: the id of a message is the 0-based position of the page's  *)
(* first item, (page-1)*per_page = start_index - 1, plus the offset of     *)
(* the message within the page.                                            *)
C4_IdFromStartOffset ==
    (FetchDone /\ response.kind = "page")
    => \A j \in 1..Len(response.emails) :
         /\ response.emails[j].id = (response.start_index - 1) + (j - 1)
         /\ response.emails[j].id = (page - 1) * per_page + (j - 1)

C4_Witness ==
    /\ FetchDone /\ response.kind = "page"
    /\ page = 2 /\ per_page = 1
    /\ Len(response.emails) = 1
    /\ response.start_index = 2
    /\ response.emails[1].id = 1

(* C7: a fetched message whose content is empty or absent gets the block   *)
(* {Analiz Edilemedi, null, 0, NO_ANALYZER} and the model layer is not     *)
(* invoked for it, whatever the model selector.                            *)
C7_EmptyContent ==
    \A j \in 1..Len(formatted_emails) :
        ~HasContent(emails[j])
        => /\ formatted_emails[j].analysis =
                [ status |-> "Analiz Edilemedi", is_normal |-> "null",
                  confidence |-> 0, prediction |-> "NO_ANALYZER" ]
           /\ ModelOutcome(j - 1) = "skipped"

C7_Witness ==
    /\ FetchDone /\ response.kind = "page"
    /\ selected_model = "svm" /\ model_manager
    /\ Len(response.emails) = 2
    /\ emails[1].content = MissingNum
    /\ response.emails[1].analysis.prediction = "NO_ANALYZER"
    /\ emails[2].content = 0
    /\ response.emails[2].analysis.prediction = "NO_ANALYZER"

(* C8: in every analysis block is_normal is true exactly when status is    *)
(* 'Normal', and it is null only when status is one of the two fallback    *)
(* states.                                                                 *)
C8_IsNormal ==
    \A b \in Blocks :
        /\ b.is_normal = "true" <=> b.status = "Normal"
        /\ b.is_normal = "null" => b.status \in {"Analiz Edilemedi", "Analiz Hatasi"}

C8_Witness ==
    /\ FetchDone /\ response.kind = "page"
    /\ \E b \in Blocks : b.is_normal = "true" /\ b.prediction = "normal"
    /\ \E b \in Blocks : b.is_normal = "false" /\ b.prediction = "anormal"

(* C9: a label produced by either table maps to itself under the same      *)
(* table, and a token that is not a key of the table is returned           *)
(* unchanged.                                                              *)
C9_LabelIdempotent ==
    /\ \A j \in 1..Len(formatted_emails) :
         ModelOutcome(j - 1) = "dict" =>
           LET b == formatted_emails[j].analysis
           IN  /\ MapGet(fetch_label_mapping, b.status) = b.status
               /\ b.prediction \notin DOMAIN fetch_label_mapping => b.status = b.prediction
    /\ response.kind = "analysis" =>
         /\ MapGet(analyze_label_mapping, response.status) = response.status
         /\ response.prediction \notin DOMAIN analyze_label_mapping
              => response.status = response.prediction

C9_Witness ==
    /\ FetchDone /\ response.kind = "page"
    /\ Len(response.emails) = 2
    /\ response.emails[1].analysis.prediction = "anormal"
    /\ response.emails[1].analysis.status = "Anormal"
    /\ response.emails[2].analysis.prediction = "Normal"
    /\ response.emails[2].analysis.status = "Normal"

(* C10: analyze_email reports 'Yuksek' for a score above 0.8, 'Orta' for   *)
(* a score above 0.5 and at most 0.8, 'Dusuk' for a score of at most 0.5.  *)
C10_ConfidenceLevel ==
    response.kind = "analysis" =>
        LET score == IF analysis_result.confidence = MissingNum
                     THEN 0 ELSE analysis_result.confidence
        IN  /\ score > 80000 => response.confidence_level = "Yuksek"
            /\ (score > 50000 /\ score <= 80000) => response.confidence_level = "Orta"
            /\ score <= 50000 => response.confidence_level = "Dusuk"

C10_Witness ==
    /\ pc = "done" /\ handler = "analyze_email"
    /\ response.kind = "analysis"
    /\ analysis_result.confidence = 50000
    /\ response.confidence_level = "Dusuk"

====
